---------------------------- MODULE Spec2Model ----------------------------
(***************************************************************************)
(* PlanMyDay backend (backend/server.py, backend/populate_db.py).          *)
(*                                                                         *)
(* Conventions of the model:                                               *)
(*  - a Python str that the code inspects character by character (venue    *)
(*    names, HH:MM clock strings) is a sequence of one-character strings;  *)
(*    a str that is only carried around is a TLA+ string;                  *)
(*  - a Python dict is a record whose DOMAIN is the dict's key set, so a   *)
(*    missing key is a missing field;                                      *)
(*  - a float with one decimal (rating, temperature) is the integer number *)
(*    of tenths (4.5 is 45, 22.0 is 220);                                  *)
(*  - a datetime is the integer number of minutes since 1900-01-01 00:00,  *)
(*    the date strptime("%H:%M") gives to a time of day.                   *)
(***************************************************************************)
EXTENDS Integers, Sequences, FiniteSets, TLC

VARIABLES
    catalog,      \* db.venues: the documents of the venue collection, in natural order
    indexes,      \* the indexes declared on db.venues
    plans,        \* db.day_plans: the persisted Day Plan documents, in insertion order
    startPc,      \* position of the startup hook init_sample_data
    seedPc,       \* position of the seeding utility populate_database
    pc,           \* pc[p]: position of request handler p in create_day_plan
    request,      \* request[p]: the PlanRequest body of handler p
    weather,      \* weather[p]: the handler's local `weather`
    venues,       \* venues[p]: the handler's local `venues` (its catalog snapshot)
    itinerary,    \* itinerary[p]: the handler's local `itinerary`
    day_plan,     \* day_plan[p]: the handler's local `day_plan`
    response,     \* response[p]: the HTTP response of handler p
    lastAwait,    \* lastAwait[p]: what the handler's latest awaited external call produced
    effects,      \* effects[p]: the external calls handler p has made, in order
    nextUuid      \* the next value uuid.uuid4() hands out

vars == <<catalog, indexes, plans, startPc, seedPc, pc, request, weather, venues,
          itinerary, day_plan, response, lastAwait, effects, nextUuid>>

---------------------------------------------------------------------------
(* Bounds of the model. *)

\* Longest venue list drawn as an input of the planner.
MaxVenues == 6

\* Longest list of proposed stops in a generation-service response.
MaxStops == 2

\* Number of plan-creation requests in flight at once.
NumHandlers == 2

---------------------------------------------------------------------------
(* Program constants. *)

\* venues_collection.find({}).to_list(100)
CatalogReadLimit == 100

\* venues[:15] in the prompt
PromptVenueLimit == 15

\* sorted(...)[:5]
FallbackLimit == 5

\* datetime.strptime("09:00", "%H:%M"), in minutes after midnight
AnchorMinutes == 540

\* timedelta(minutes=30)
BufferMinutes == 30

---------------------------------------------------------------------------
(* str helpers. *)

Min(a, b) == IF a <= b THEN a ELSE b

\* seq[:n]
Take(seq, n) == SubSeq(seq, 1, Min(n, Len(seq)))

LowerChar(c) ==
    CASE c = "A" -> "a" [] c = "B" -> "b" [] c = "C" -> "c" [] c = "D" -> "d"
      [] c = "E" -> "e" [] c = "F" -> "f" [] c = "G" -> "g" [] c = "H" -> "h"
      [] c = "I" -> "i" [] c = "J" -> "j" [] c = "K" -> "k" [] c = "L" -> "l"
      [] c = "M" -> "m" [] c = "N" -> "n" [] c = "O" -> "o" [] c = "P" -> "p"
      [] c = "Q" -> "q" [] c = "R" -> "r" [] c = "S" -> "s" [] c = "T" -> "t"
      [] c = "U" -> "u" [] c = "V" -> "v" [] c = "W" -> "w" [] c = "X" -> "x"
      [] c = "Y" -> "y" [] c = "Z" -> "z" [] OTHER -> c

\* lower() left out of the match: names are compared as written.
lower_left_out(s) == s

\* str.lower()
lower(s) == [i \in 1..Len(s) |-> LowerChar(s[i])]

\* needle in hay (str containment)
StrIn(needle, hay) ==
    \E i \in 0..(Len(hay) - Len(needle)) : SubSeq(hay, i + 1, i + Len(needle)) = needle

DigitChar(d) ==
    CASE d = 0 -> "0" [] d = 1 -> "1" [] d = 2 -> "2" [] d = 3 -> "3" [] d = 4 -> "4"
      [] d = 5 -> "5" [] d = 6 -> "6" [] d = 7 -> "7" [] d = 8 -> "8" [] d = 9 -> "9"

\* datetime.strftime("%H:%M"): the time of day of t, zero padded
strftime(t) ==
    LET h == (t \div 60) % 24
        m == t % 60
    IN  <<DigitChar(h \div 10), DigitChar(h % 10), ":", DigitChar(m \div 10), DigitChar(m % 10)>>

---------------------------------------------------------------------------
(* The venue documents. *)

SAMPLE_VENUES == <<
    [id |-> "sample-uuid-1",
     name |-> <<"T","h","e"," ","C","o","f","f","e","e"," ","C","o","r","n","e","r">>,
     category |-> "restaurant",
     location |-> [lat |-> 407589, lng |-> -739851, address |-> "123 Broadway, NYC"],
     price_range |-> "$$", rating |-> 45, description |-> "Cozy coffee shop",
     opening_hours |-> "7:00 AM - 6:00 PM", estimated_duration |-> 45],
    [id |-> "sample-uuid-2",
     name |-> <<"C","e","n","t","r","a","l"," ","P","a","r","k">>,
     category |-> "attraction",
     location |-> [lat |-> 407821, lng |-> -739654, address |-> "Central Park, NYC"],
     price_range |-> "$", rating |-> 48, description |-> "Iconic urban park",
     opening_hours |-> "6:00 AM - 1:00 AM", estimated_duration |-> 120] >>

OUR_VENUES == <<
    [name |-> <<"T","e","c","h"," ","C","a","f","e"," ","2","0","4","9">>,
     category |-> "restaurant", location |-> [lat |-> 129716, lng |-> 775946],
     price_range |-> "$$", rating |-> 47,
     popular_dishes |-> <<"Quantum Quiche", "Neural-Net Nachos">>,
     booking_url |-> "https://example.com/book/techcafe"],
    [name |-> <<"T","h","e"," ","G","r","e","e","n"," ","L","e","a","f"," ","B","i","s","t","r","o">>,
     category |-> "restaurant", location |-> [lat |-> 129345, lng |-> 776244],
     price_range |-> "$$$", rating |-> 49,
     popular_dishes |-> <<"Avocado Toast", "Kale Smoothie", "Vegan Burger">>,
     booking_url |-> "https://example.com/book/greenleaf"],
    [name |-> <<"C","i","t","y"," ","A","r","t"," ","G","a","l","l","e","r","y">>,
     category |-> "attraction", location |-> [lat |-> 129757, lng |-> 775929],
     price_range |-> "$", rating |-> 46,
     description |-> "Features modern and contemporary art from local artists."],
    [name |-> <<"I","n","n","o","v","a","t","e"," ","H","u","b">>,
     category |-> "activity", location |-> [lat |-> 129279, lng |-> 776271],
     price_range |-> "Free", rating |-> 48,
     description |-> "A co-working and event space for tech enthusiasts. Hosts weekly meetups."],
    [name |-> <<"T","h","e"," ","E","s","c","a","p","e"," ","R","o","o","m",":"," ","S","e","c","t","o","r"," ","7">>,
     category |-> "activity", location |-> [lat |-> 129352, lng |-> 776169],
     price_range |-> "$$$", rating |-> 49,
     description |-> "A challenging sci-fi themed escape room adventure.",
     booking_url |-> "https://example.com/book/escaperoom7"],
    [name |-> <<"R","o","o","f","t","o","p"," ","C","i","n","e","m","a"," ","C","l","u","b">>,
     category |-> "event", location |-> [lat |-> 129592, lng |-> 776455],
     price_range |-> "$$", rating |-> 47,
     description |-> "Outdoor movie screenings with classic films and city views.",
     booking_url |-> "https://example.com/book/rooftopcinema"],
    [name |-> <<"D","o","w","n","t","o","w","n"," ","M","u","s","i","c"," ","H","a","l","l">>,
     category |-> "event", location |-> [lat |-> 129845, lng |-> 775995],
     price_range |-> "$$$", rating |-> 46,
     description |-> "Live music venue featuring indie bands and international artists.",
     booking_url |-> "https://example.com/book/downtownmusic"] >>

\* The keys class Venue requires (popular_items and booking_url have defaults).
VenueRequiredKeys ==
    {"id", "name", "category", "location", "price_range", "rating", "description",
     "opening_hours", "estimated_duration"}

\* The keys class Location requires.
LocationRequiredKeys == {"lat", "lng", "address"}

\* Whether Venue(**d) validates: every required field is there, the nested
\* location included. Keys the class does not declare are ignored.
VenueValidates(d) ==
    /\ VenueRequiredKeys \subseteq DOMAIN d
    /\ LocationRequiredKeys \subseteq DOMAIN d.location

\* Venue(**d) for a dict that validates: the declared fields, by value.
Venue(d) ==
    [id |-> d.id, name |-> d.name, category |-> d.category,
     location |-> [lat |-> d.location.lat, lng |-> d.location.lng,
                   address |-> d.location.address],
     price_range |-> d.price_range, rating |-> d.rating, description |-> d.description,
     opening_hours |-> d.opening_hours, estimated_duration |-> d.estimated_duration]

---------------------------------------------------------------------------
(* AIPlanner.fallback_planning. *)

\* A call's outcome: the value returned, or the exception raised.
Returned(items) == [status |-> "returned", items |-> items]
Raised(error) == [status |-> "raised", error |-> error]

\* One step of sorted(..., reverse=True): v goes behind every venue rated at
\* least as high, so venues of equal rating stay in input order.
RECURSIVE InsertByRating(_, _)
InsertByRating(v, sorted) ==
    IF sorted = <<>> THEN <<v>>
    ELSE IF Head(sorted).rating >= v.rating
         THEN <<Head(sorted)>> \o InsertByRating(v, Tail(sorted))
         ELSE <<v>> \o sorted

\* sorted(venues, key=lambda x: x['rating'], reverse=True)
RECURSIVE SortedByRatingDesc(_)
SortedByRatingDesc(vs) ==
    IF vs = <<>> THEN <<>>
    ELSE InsertByRating(vs[Len(vs)], SortedByRatingDesc(SubSeq(vs, 1, Len(vs) - 1)))

\* The loop of fallback_planning over suitable_venues[i..], with the running
\* clock current_time and the items appended so far.
RECURSIVE PackFrom(_, _, _, _)
PackFrom(suitable, i, current_time, acc) ==
    IF i > Len(suitable) THEN Returned(acc)
    ELSE LET venue_data == suitable[i] IN
         IF "estimated_duration" \notin DOMAIN venue_data THEN Raised("KeyError")
         ELSE IF ~VenueValidates(venue_data) THEN Raised("ValidationError")
         ELSE LET start_time_obj == current_time
                  end_time_obj == start_time_obj + venue_data.estimated_duration
              IN  PackFrom(suitable, i + 1, end_time_obj + BufferMinutes,
                           Append(acc, [venue |-> Venue(venue_data),
                                        start_time |-> strftime(start_time_obj),
                                        end_time |-> strftime(end_time_obj),
                                        notes |-> "A great choice."]))

\* fallback_planning with the buffer put before the first visit too.
fallback_planning_buffer_first(vs) ==
    IF \E i \in 1..Len(vs) : "rating" \notin DOMAIN vs[i] THEN Raised("KeyError")
    ELSE PackFrom(Take(SortedByRatingDesc(vs), FallbackLimit), 1,
                  AnchorMinutes + BufferMinutes, <<>>)

fallback_planning(vs) ==
    IF \E i \in 1..Len(vs) : "rating" \notin DOMAIN vs[i] THEN Raised("KeyError")
    ELSE PackFrom(Take(SortedByRatingDesc(vs), FallbackLimit), 1, AnchorMinutes, <<>>)

---------------------------------------------------------------------------
(* AIPlanner.generate_itinerary. *)

\* Building venue_info reads name, category and description of each of the
\* first 15 venues; a missing key raises before the service is called.
PromptRaises(vs) ==
    \E i \in 1..Min(PromptVenueLimit, Len(vs)) :
        ~({"name", "category", "description"} \subseteq DOMAIN vs[i])

\* next((v for v in venues if v["name"].lower() in item["venue_name"].lower()), None)
\* from venue i on: the venue found, nothing, or the exception raised.
RECURSIVE VenueMatchFrom(_, _, _)
VenueMatchFrom(item, vs, i) ==
    IF i > Len(vs) THEN [status |-> "none"]
    ELSE IF "name" \notin DOMAIN vs[i] THEN Raised("KeyError")
    ELSE IF "venue_name" \notin DOMAIN item THEN Raised("KeyError")
    ELSE IF StrIn(lower(vs[i].name), lower(item.venue_name))
         THEN [status |-> "found", venue |-> vs[i]]
         ELSE VenueMatchFrom(item, vs, i + 1)

\* dict.get(key, default)
Get(d, key, default) == IF key \in DOMAIN d THEN d[key] ELSE default

\* The loop over ai_data.get("itinerary", []) from stop k on.
RECURSIVE MatchStopsFrom(_, _, _, _)
MatchStopsFrom(stops, vs, k, acc) ==
    IF k > Len(stops) THEN Returned(acc)
    ELSE LET item == stops[k]
             venue_match == VenueMatchFrom(item, vs, 1)
         IN  IF venue_match.status = "raised" THEN venue_match
             ELSE IF venue_match.status = "none" THEN MatchStopsFrom(stops, vs, k + 1, acc)
             ELSE IF ~VenueValidates(venue_match.venue) THEN Raised("ValidationError")
             ELSE MatchStopsFrom(stops, vs, k + 1,
                      Append(acc, [venue |-> Venue(venue_match.venue),
                                   start_time |-> Get(item, "start_time", <<"N","/","A">>),
                                   end_time |-> Get(item, "end_time", <<"N","/","A">>),
                                   notes |-> Get(item, "notes", "")]))

\* The try block of generate_itinerary once the service has answered with ai.
GenerativePath(ai, vs) ==
    IF ai.kind = "api_error" THEN Raised("APIError")
    ELSE IF ai.kind = "not_json" THEN Raised("JSONDecodeError")
    ELSE MatchStopsFrom(Get(ai.body, "itinerary", <<>>), vs, 1, <<>>)

\* generate_itinerary given the service's answer: what the try block returns,
\* and on any exception what fallback_planning returns or raises.
generate_itinerary(ai, vs) ==
    LET tried == IF PromptRaises(vs) THEN Raised("KeyError") ELSE GenerativePath(ai, vs)
    IN  IF tried.status = "returned" THEN tried ELSE fallback_planning(vs)

---------------------------------------------------------------------------
(* Plan assembly in create_day_plan. *)

price_map == [t \in {"$", "$$", "$$$", "$$$$"} |->
                 CASE t = "$" -> 25 [] t = "$$" -> 50 [] t = "$$$" -> 100 [] t = "$$$$" -> 150]

\* sum(price_map.get(item.venue.price_range, 0) for item in itinerary)
RECURSIVE estimated_cost(_)
estimated_cost(items) ==
    IF items = <<>> THEN 0
    ELSE Get(price_map, Head(items).venue.price_range, 0) + estimated_cost(Tail(items))

\* DayPlan with the cost taken per head of the group.
DayPlan_per_head(id, req, w, items) ==
    [id |-> id, location |-> req.location, weather |-> w, total_budget |-> req.budget,
     estimated_cost |-> estimated_cost(items) * req.group_size, itinerary |-> items]

\* DayPlan(...): date and created_at (the wall clock) are left out.
DayPlan(id, req, w, items) ==
    [id |-> id, location |-> req.location, weather |-> w, total_budget |-> req.budget,
     estimated_cost |-> estimated_cost(items), itinerary |-> items]

---------------------------------------------------------------------------
(* WeatherService.get_current_weather. *)

FallbackWeather ==
    [temperature |-> 220, description |-> "partly cloudy", feels_like |-> 240,
     humidity |-> 65, weather_main |-> "Clouds"]

\* The try block without response.raise_for_status().
WeatherRaises_status_unchecked(r) ==
    \/ r.transport # "ok"
    \/ ~r.json
    \/ "main" \notin DOMAIN r.body
    \/ ~({"temp", "feels_like", "humidity"} \subseteq DOMAIN r.body.main)
    \/ "weather" \notin DOMAIN r.body
    \/ r.body.weather = <<>>
    \/ ~({"description", "main"} \subseteq DOMAIN r.body.weather[1])

\* Whether the try block raises on the service's answer r: the transport
\* fails or times out, raise_for_status() rejects the status, response.json()
\* fails, or a key or the first weather entry is missing.
WeatherRaises(r) ==
    \/ r.transport # "ok"
    \/ ~(r.status >= 200 /\ r.status < 300)
    \/ ~r.json
    \/ "main" \notin DOMAIN r.body
    \/ ~({"temp", "feels_like", "humidity"} \subseteq DOMAIN r.body.main)
    \/ "weather" \notin DOMAIN r.body
    \/ r.body.weather = <<>>
    \/ ~({"description", "main"} \subseteq DOMAIN r.body.weather[1])

get_current_weather(r) ==
    IF WeatherRaises(r) THEN FallbackWeather
    ELSE [temperature |-> r.body.main.temp,
          description |-> r.body.weather[1].description,
          feels_like |-> r.body.main.feels_like,
          humidity |-> r.body.main.humidity,
          weather_main |-> r.body.weather[1].main]

---------------------------------------------------------------------------
(* Inputs: the request bodies, the answers of the external services and the  *)
(* venue lists the catalog is drawn from.                                    *)

\* The handlers, one plan-creation request each.
Handlers == 1..NumHandlers

\* The handler of the runs with one request.
FirstHandler == CHOOSE p \in Handlers : \A q \in Handlers : p <= q

Null == [kind |-> "null"]

RequestInputs ==
    {[location |-> [lat |-> 407589, lng |-> -739851, address |-> "Times Square, NYC"],
      budget |-> 40, interests |-> <<"food">>, duration |-> "half-day", group_size |-> 1],
     [location |-> [lat |-> 129716, lng |-> 775946, address |-> "MG Road, Bengaluru"],
      budget |-> 500, interests |-> <<"art", "music">>, duration |-> "full-day", group_size |-> 4]}

\* A 200 answer of the weather service with a complete body.
WeatherOk ==
    [kind |-> "weather", transport |-> "ok", status |-> 200, json |-> TRUE,
     body |-> [main |-> [temp |-> 185, feels_like |-> 171, humidity |-> 40],
               weather |-> <<[description |-> "clear sky", main |-> "Clear"]>>]]

\* The answers of the weather service: complete, transport error, timeout,
\* 401 (the placeholder API key), a body that is not JSON, a body without
\* "main", a body with an empty "weather" list.
WeatherResponses ==
    {WeatherOk,
     [WeatherOk EXCEPT !.transport = "connect_error"],
     [WeatherOk EXCEPT !.transport = "timeout"],
     [WeatherOk EXCEPT !.status = 401],
     [WeatherOk EXCEPT !.json = FALSE],
     [WeatherOk EXCEPT !.body = [weather |-> <<[description |-> "clear sky", main |-> "Clear"]>>]],
     [WeatherOk EXCEPT !.body = [main |-> [temp |-> 185, feels_like |-> 171, humidity |-> 40],
                                 weather |-> <<>>]]}

\* Proposed stops of a generation-service answer: a lower-case name, an
\* upper-case name inside a longer text (no end_time, no notes), a text that
\* names two venues, a name of no venue, and a stop without venue_name.
StopInputs ==
    {[venue_name |-> <<"t","h","e"," ","c","o","f","f","e","e"," ","c","o","r","n","e","r">>,
      start_time |-> <<"1","0",":","0","0">>, end_time |-> <<"1","1",":","3","0">>,
      notes |-> "Start with coffee."],
     [venue_name |-> <<"C","E","N","T","R","A","L"," ","P","A","R","K"," ","Z","O","O">>,
      start_time |-> <<"1","1",":","3","0">>],
     [venue_name |-> <<"C","e","n","t","r","a","l"," ","P","a","r","k",","," ","t","h","e","n"," ","T","h","e"," ","C","o","f","f","e","e"," ","C","o","r","n","e","r">>,
      start_time |-> <<"1","0",":","0","0">>, end_time |-> <<"1","1",":","3","0">>,
      notes |-> "Two in one."],
     [venue_name |-> <<"M","o","o","n"," ","B","a","s","e">>,
      start_time |-> <<"1","0",":","0","0">>, end_time |-> <<"1","1",":","3","0">>,
      notes |-> "Bring a suit."],
     [start_time |-> <<"1","0",":","0","0">>, end_time |-> <<"1","1",":","3","0">>,
      notes |-> "Somewhere nice."]}

\* The lists of at most MaxStops proposed stops.
StopLists == UNION {[1..n -> StopInputs] : n \in 0..MaxStops}

\* The answers of the generation service: an API or network error, content
\* that is not JSON, a JSON object without "itinerary", and a JSON object
\* with a list of proposed stops.
GenResponses ==
    {[kind |-> "api_error"], [kind |-> "not_json"],
     [kind |-> "json", body |-> [plan |-> "see you there"]]}
    \cup {[kind |-> "json", body |-> [itinerary |-> stops]] : stops \in StopLists}

\* Venue documents a catalog may hold: the two sample venues, a document of
\* the seeding utility (one the prompt can be built from), and four documents
\* of the Venue shape covering the other price tiers, rating ties with the
\* other documents, a visit of 0 minutes and visits of several hours.
VenueInputs ==
    {SAMPLE_VENUES[1], SAMPLE_VENUES[2], OUR_VENUES[4],
     [id |-> "venue-3", name |-> <<"M","u","s","e","u","m">>, category |-> "attraction",
      location |-> [lat |-> 407794, lng |-> -739632, address |-> "1000 5th Ave, NYC"],
      price_range |-> "$$$", rating |-> 48, description |-> "Art museum",
      opening_hours |-> "10:00 AM - 5:00 PM", estimated_duration |-> 240],
     [id |-> "venue-4", name |-> <<"P","a","r","k">>, category |-> "activity",
      location |-> [lat |-> 407128, lng |-> -740060, address |-> "Park Row, NYC"],
      price_range |-> "$$$$", rating |-> 45, description |-> "Photo stop",
      opening_hours |-> "Always open", estimated_duration |-> 0],
     [id |-> "venue-5", name |-> <<"P","i","e","r">>, category |-> "event",
      location |-> [lat |-> 407003, lng |-> -740113, address |-> "Pier 17, NYC"],
      price_range |-> "Free", rating |-> 49, description |-> "Open-air festival",
      opening_hours |-> "12:00 PM - 11:00 PM", estimated_duration |-> 480],
     [id |-> "venue-6", name |-> <<"Z","o","o">>, category |-> "attraction",
      location |-> [lat |-> 407678, lng |-> -739718, address |-> "East 64th St, NYC"],
      price_range |-> "$", rating |-> 47, description |-> "City zoo",
      opening_hours |-> "10:00 AM - 4:30 PM", estimated_duration |-> 90]}

\* The venue lists of exactly n distinct documents.
RECURSIVE CatalogsOfLen(_)
CatalogsOfLen(n) ==
    IF n = 0 THEN {<<>>}
    ELSE {Append(c, v) : <<c, v>> \in
             {cv \in CatalogsOfLen(n - 1) \X VenueInputs :
                 \A i \in 1..Len(cv[1]) : cv[1][i] # cv[2]}}

\* The venue lists of at most MaxVenues distinct documents.
Catalogs == UNION {CatalogsOfLen(n) : n \in 0..MaxVenues}

---------------------------------------------------------------------------
(* The state machine. *)

InitLocals ==
    /\ indexes = {}
    /\ plans = <<>>
    /\ seedPc = "idle"
    /\ pc = [p \in Handlers |-> "idle"]
    /\ request = [p \in Handlers |-> Null]
    /\ weather = [p \in Handlers |-> Null]
    /\ venues = [p \in Handlers |-> <<>>]
    /\ itinerary = [p \in Handlers |-> <<>>]
    /\ day_plan = [p \in Handlers |-> Null]
    /\ response = [p \in Handlers |-> Null]
    /\ lastAwait = [p \in Handlers |-> Null]
    /\ effects = [p \in Handlers |-> <<>>]
    /\ nextUuid = 1

\* The server process starts on a fresh database.
Init ==
    /\ catalog = <<>>
    /\ startPc = "count"
    /\ InitLocals

\* init_sample_data: await venues_collection.count_documents({}) == 0
StartupCount ==
    /\ startPc = "count"
    /\ startPc' = IF Len(catalog) = 0 THEN "insert" ELSE "done"
    /\ UNCHANGED <<catalog, indexes, plans, seedPc, pc, request, weather, venues,
                   itinerary, day_plan, response, lastAwait, effects, nextUuid>>

\* init_sample_data: await venues_collection.insert_many(SAMPLE_VENUES)
StartupInsert ==
    /\ startPc = "insert"
    /\ catalog' = catalog \o SAMPLE_VENUES
    /\ startPc' = "done"
    /\ UNCHANGED <<indexes, plans, seedPc, pc, request, weather, venues,
                   itinerary, day_plan, response, lastAwait, effects, nextUuid>>

\* populate_database: await venues_collection.delete_many({})
SeedDelete ==
    /\ seedPc = "idle"
    /\ catalog' = <<>>
    /\ seedPc' = "insert"
    /\ UNCHANGED <<indexes, plans, startPc, pc, request, weather, venues,
                   itinerary, day_plan, response, lastAwait, effects, nextUuid>>

\* populate_database: await venues_collection.insert_many(OUR_VENUES)
SeedInsert ==
    /\ seedPc = "insert"
    /\ catalog' = catalog \o OUR_VENUES
    /\ seedPc' = "index"
    /\ UNCHANGED <<indexes, plans, startPc, pc, request, weather, venues,
                   itinerary, day_plan, response, lastAwait, effects, nextUuid>>

\* populate_database: await venues_collection.create_index([("location", "2dsphere")]),
\* the count for the log, and the script ends (it may be run again).
SeedIndex ==
    /\ seedPc = "index"
    /\ indexes' = indexes \cup {"location_2dsphere"}
    /\ seedPc' = "idle"
    /\ UNCHANGED <<catalog, plans, startPc, pc, request, weather, venues,
                   itinerary, day_plan, response, lastAwait, effects, nextUuid>>

\* POST /api/plan arrives with a body of the set R; the server takes requests
\* once its startup hook has run.
Receive(p, R) ==
    /\ pc[p] = "idle"
    /\ startPc = "done"
    /\ \E r \in R : request' = [request EXCEPT ![p] = r]
    /\ pc' = [pc EXCEPT ![p] = "weather"]
    /\ UNCHANGED <<catalog, indexes, plans, startPc, seedPc, weather, venues,
                   itinerary, day_plan, response, lastAwait, effects, nextUuid>>

\* weather = await WeatherService.get_current_weather(...), the service
\* answering with one of W.
WeatherCall(p, W) ==
    /\ pc[p] = "weather"
    /\ \E r \in W :
          /\ weather' = [weather EXCEPT ![p] = get_current_weather(r)]
          /\ lastAwait' = [lastAwait EXCEPT ![p] = r]
    /\ effects' = [effects EXCEPT ![p] = Append(@, "weather")]
    /\ pc' = [pc EXCEPT ![p] = "catalog"]
    /\ UNCHANGED <<catalog, indexes, plans, startPc, seedPc, request, venues,
                   itinerary, day_plan, response, nextUuid>>

\* The handler's except clause: raise HTTPException(status_code=500, detail=str(e))
Fail(p, detail) ==
    /\ response' = [response EXCEPT ![p] = [status |-> 500, detail |-> detail]]
    /\ pc' = [pc EXCEPT ![p] = "done"]

\* venues = await venues_collection.find({}).to_list(100), the database
\* answering (ok) or failing (~ok), ok drawn from D.
CatalogRead(p, D) ==
    /\ pc[p] = "catalog"
    /\ effects' = [effects EXCEPT ![p] = Append(@, "catalog")]
    /\ \E ok \in D :
          /\ lastAwait' = [lastAwait EXCEPT ![p] = [kind |-> "find", ok |-> ok]]
          /\ IF ok
             THEN /\ venues' = [venues EXCEPT ![p] = Take(catalog, CatalogReadLimit)]
                  /\ pc' = [pc EXCEPT ![p] = "plan"]
                  /\ UNCHANGED response
             ELSE /\ Fail(p, "ServerSelectionTimeoutError")
                  /\ UNCHANGED venues
    /\ UNCHANGED <<catalog, indexes, plans, startPc, seedPc, request, weather,
                   itinerary, day_plan, nextUuid>>

\* create_day_plan without the `if not itinerary` check.
Assemble_unchecked(p, outcome) ==
    IF outcome.status = "raised"
    THEN /\ Fail(p, outcome.error)
         /\ UNCHANGED <<itinerary, day_plan, nextUuid>>
    ELSE /\ itinerary' = [itinerary EXCEPT ![p] = outcome.items]
         /\ day_plan' = [day_plan EXCEPT ![p] =
                 DayPlan(nextUuid, request[p], weather[p], outcome.items)]
         /\ nextUuid' = nextUuid + 1
         /\ pc' = [pc EXCEPT ![p] = "insert"]
         /\ UNCHANGED response

\* create_day_plan from the return of generate_itinerary to the call of
\* insert_one: a raise ends the request in the except clause, an empty
\* itinerary raises HTTPException(500), anything else becomes a DayPlan.
Assemble(p, outcome) ==
    IF outcome.status = "raised"
    THEN /\ Fail(p, outcome.error)
         /\ UNCHANGED <<itinerary, day_plan, nextUuid>>
    ELSE /\ itinerary' = [itinerary EXCEPT ![p] = outcome.items]
         /\ IF outcome.items = <<>>
            THEN /\ Fail(p, "Failed to generate itinerary.")
                 /\ UNCHANGED <<day_plan, nextUuid>>
            ELSE /\ day_plan' = [day_plan EXCEPT ![p] =
                         DayPlan(nextUuid, request[p], weather[p], outcome.items)]
                 /\ nextUuid' = nextUuid + 1
                 /\ pc' = [pc EXCEPT ![p] = "insert"]
                 /\ UNCHANGED response

\* itinerary = await AIPlanner.generate_itinerary(request, weather, venues):
\* the prompt cannot be built and the service is never called, or the service
\* is called once and answers with one of G.
Plan(p, G) ==
    /\ pc[p] = "plan"
    /\ \/ /\ PromptRaises(venues[p])
          /\ Assemble(p, generate_itinerary([kind |-> "not_called"], venues[p]))
          /\ UNCHANGED <<lastAwait, effects>>
       \/ /\ ~PromptRaises(venues[p])
          /\ \E ai \in G :
                /\ lastAwait' = [lastAwait EXCEPT ![p] = ai]
                /\ Assemble(p, generate_itinerary(ai, venues[p]))
          /\ effects' = [effects EXCEPT ![p] = Append(@, "generation")]
    /\ UNCHANGED <<catalog, indexes, plans, startPc, seedPc, request, weather, venues>>

\* The write as a replacement of the collection's content instead of an insert.
Insert_replacing(p, D) ==
    /\ pc[p] = "insert"
    /\ effects' = [effects EXCEPT ![p] = Append(@, "insert")]
    /\ \E ok \in D :
          /\ lastAwait' = [lastAwait EXCEPT ![p] = [kind |-> "insert_one", ok |-> ok]]
          /\ IF ok
             THEN /\ plans' = <<day_plan[p]>>
                  /\ response' = [response EXCEPT ![p] = [status |-> 200, body |-> day_plan[p]]]
                  /\ pc' = [pc EXCEPT ![p] = "done"]
             ELSE /\ Fail(p, "ServerSelectionTimeoutError")
                  /\ UNCHANGED plans
    /\ UNCHANGED <<catalog, indexes, startPc, seedPc, request, weather, venues,
                   itinerary, day_plan, nextUuid>>

\* await plans_collection.insert_one(day_plan.dict(by_alias=True)); return day_plan
Insert(p, D) ==
    /\ pc[p] = "insert"
    /\ effects' = [effects EXCEPT ![p] = Append(@, "insert")]
    /\ \E ok \in D :
          /\ lastAwait' = [lastAwait EXCEPT ![p] = [kind |-> "insert_one", ok |-> ok]]
          /\ IF ok
             THEN /\ plans' = Append(plans, day_plan[p])
                  /\ response' = [response EXCEPT ![p] = [status |-> 200, body |-> day_plan[p]]]
                  /\ pc' = [pc EXCEPT ![p] = "done"]
             ELSE /\ Fail(p, "ServerSelectionTimeoutError")
                  /\ UNCHANGED plans
    /\ UNCHANGED <<catalog, indexes, startPc, seedPc, request, weather, venues,
                   itinerary, day_plan, nextUuid>>

\* The answers drawn where the content of the answer is beside the point:
\* the service is down, or it proposes one stop.
FewGenResponses ==
    {[kind |-> "api_error"],
     [kind |-> "json", body |-> [itinerary |->
         <<[venue_name |-> <<"C","E","N","T","R","A","L"," ","P","A","R","K"," ","Z","O","O">>,
            start_time |-> <<"1","1",":","3","0">>]>>]]}

\* The server with its startup hook, the seeding utility run beside it, and
\* one request with every answer of the external services.
Next ==
    \/ StartupCount
    \/ StartupInsert
    \/ SeedDelete
    \/ SeedInsert
    \/ SeedIndex
    \/ Receive(FirstHandler, RequestInputs)
    \/ WeatherCall(FirstHandler, WeatherResponses)
    \/ CatalogRead(FirstHandler, BOOLEAN)
    \/ Plan(FirstHandler, GenResponses)
    \/ Insert(FirstHandler, BOOLEAN)

Spec == Init /\ [][Next]_vars

\* The same server with NumHandlers requests in flight at once.
ConcurrentNext ==
    \/ StartupCount
    \/ StartupInsert
    \/ SeedDelete
    \/ SeedInsert
    \/ SeedIndex
    \/ \E p \in Handlers : Receive(p, {CHOOSE r \in RequestInputs : r.group_size = 1})
    \/ \E p \in Handlers : WeatherCall(p, {WeatherOk, [WeatherOk EXCEPT !.transport = "timeout"]})
    \/ \E p \in Handlers : CatalogRead(p, BOOLEAN)
    \/ \E p \in Handlers : Plan(p, FewGenResponses)
    \/ \E p \in Handlers : Insert(p, BOOLEAN)

ConcurrentSpec == Init /\ [][ConcurrentNext]_vars

\* One request over a catalog drawn from Catalogs, the weather service and
\* the database answering.
PlannerInit ==
    /\ catalog \in Catalogs
    /\ startPc = "done"
    /\ InitLocals

PlannerNext ==
    \/ Receive(FirstHandler, RequestInputs)
    \/ WeatherCall(FirstHandler, {WeatherOk})
    \/ CatalogRead(FirstHandler, {TRUE})
    \/ Plan(FirstHandler, FewGenResponses)
    \/ Insert(FirstHandler, {TRUE})

PlannerSpec == PlannerInit /\ [][PlannerNext]_vars

---------------------------------------------------------------------------
(* Reading the state: where a handler stands and which strategy ran. *)

\* Handler p has just come out of generate_itinerary: its latest await is the
\* generation service's answer, or still the catalog read when the service
\* was never called.
AfterPlan(p) ==
    /\ pc[p] \in {"insert", "done"}
    /\ lastAwait[p].kind # "insert_one"
    /\ ~(lastAwait[p].kind = "find" /\ ~lastAwait[p].ok)

\* The generation service was called and answered.
ServiceAnswered(p) == AfterPlan(p) /\ lastAwait[p].kind \in {"api_error", "not_json", "json"}

\* The except clause of generate_itinerary ran, so fallback_planning was called.
FallbackInvoked(p) ==
    /\ AfterPlan(p)
    /\ \/ PromptRaises(venues[p])
       \/ GenerativePath(lastAwait[p], venues[p]).status = "raised"

\* fallback_planning was called and returned.
FallbackReturned(p) ==
    /\ FallbackInvoked(p)
    /\ \/ pc[p] = "insert"
       \/ response[p].detail = "Failed to generate itinerary."

DigitValue(c) ==
    CASE c = "0" -> 0 [] c = "1" -> 1 [] c = "2" -> 2 [] c = "3" -> 3 [] c = "4" -> 4
      [] c = "5" -> 5 [] c = "6" -> 6 [] c = "7" -> 7 [] c = "8" -> 8 [] c = "9" -> 9

\* The minutes after midnight an HH:MM string names.
ClockMinutes(s) ==
    (DigitValue(s[1]) * 10 + DigitValue(s[2])) * 60 + DigitValue(s[4]) * 10 + DigitValue(s[5])

\* a and b are the same character up to case.
SameLetter(a, b) ==
    \/ a = b
    \/ \E pair \in {<<"A","a">>, <<"B","b">>, <<"C","c">>, <<"D","d">>, <<"E","e">>,
                    <<"F","f">>, <<"G","g">>, <<"H","h">>, <<"I","i">>, <<"J","j">>,
                    <<"K","k">>, <<"L","l">>, <<"M","m">>, <<"N","n">>, <<"O","o">>,
                    <<"P","p">>, <<"Q","q">>, <<"R","r">>, <<"S","s">>, <<"T","t">>,
                    <<"U","u">>, <<"V","v">>, <<"W","w">>, <<"X","x">>, <<"Y","y">>,
                    <<"Z","z">>} :
          \/ (a = pair[1] /\ b = pair[2])
          \/ (a = pair[2] /\ b = pair[1])

\* name occurs in text, case ignored.
OccursIgnoringCase(name, text) ==
    \E off \in 0..(Len(text) - Len(name)) :
        \A i \in 1..Len(name) : SameLetter(name[i], text[off + i])

\* The first venue of vs, in order, whose name occurs in the stop's
\* venue_name; 0 when there is none.
FirstMatching(stop, vs) ==
    LET hits == {i \in 1..Len(vs) : OccursIgnoringCase(vs[i].name, stop.venue_name)}
    IN  IF hits = {} THEN 0 ELSE CHOOSE i \in hits : \A j \in hits : i <= j

\* The number of venues that come before venue i in non-increasing rating
\* order with ties in input order.
RankByRating(vs, i) ==
    Cardinality({j \in 1..Len(vs) :
        \/ vs[j].rating > vs[i].rating
        \/ (vs[j].rating = vs[i].rating /\ j < i)})

\* The price of a tier as the documentation gives it.
TierPrice(tier) ==
    CASE tier = "$" -> 25 [] tier = "$$" -> 50 [] tier = "$$$" -> 100
      [] tier = "$$$$" -> 150 [] OTHER -> 0

RECURSIVE SumOfTierPrices(_)
SumOfTierPrices(items) ==
    IF items = <<>> THEN 0
    ELSE TierPrice(items[1].venue.price_range) + SumOfTierPrices(Tail(items))

---------------------------------------------------------------------------
(* C1 *)

\* The generative path failed on the answer the service gave: an API or
\* network error, content that is not JSON, a JSON object without a list of
\* stops, a stop without venue_name, or no stop naming a candidate venue.
GenerativeFailure(ai, vs) ==
    \/ ai.kind \in {"api_error", "not_json"}
    \/ "itinerary" \notin DOMAIN ai.body
    \/ \E k \in 1..Len(ai.body.itinerary) : "venue_name" \notin DOMAIN ai.body.itinerary[k]
    \/ \A k \in 1..Len(ai.body.itinerary) : FirstMatching(ai.body.itinerary[k], vs) = 0

\* C1: whenever the generative path fails on the service's answer (error,
\* malformed or unparsable answer, zero matches), the itinerary returned is
\* exactly what fallback_planning returns for the handler's venue list, and
\* so it is not empty when the venue list is not.
C1_FailureTriggersFallback ==
    \A p \in Handlers :
        (ServiceAnswered(p) /\ GenerativeFailure(lastAwait[p], venues[p]))
            => /\ fallback_planning(venues[p]).status = "returned"
                    => itinerary[p] = fallback_planning(venues[p]).items
               /\ venues[p] # <<>> => itinerary[p] # <<>>

---------------------------------------------------------------------------
(* C2 *)

\* C2: whenever fallback_planning is called with a non-empty venue list it
\* returns a non-empty itinerary without raising, so the request goes on to
\* persist a plan instead of ending in a 500 response.
C2_FallbackNeverFails ==
    \A p \in Handlers :
        (FallbackInvoked(p) /\ venues[p] # <<>>)
            => /\ pc[p] = "insert"
               /\ itinerary[p] # <<>>

---------------------------------------------------------------------------
(* C3 *)

\* C3: whenever fallback_planning is called with a non-empty venue list it
\* returns min(5, number of venues) items, and item k carries the venue that
\* k-1 venues precede in non-increasing rating order with ties in input order.
C3_FallbackTopFiveStable ==
    \A p \in Handlers :
        (FallbackInvoked(p) /\ venues[p] # <<>>)
            => /\ FallbackReturned(p)
               /\ Len(itinerary[p]) = Min(5, Len(venues[p]))
               /\ \A k \in 1..Len(itinerary[p]) :
                     \E i \in 1..Len(venues[p]) :
                        /\ RankByRating(venues[p], i) = k - 1
                        /\ itinerary[p][k].venue = Venue(venues[p][i])

---------------------------------------------------------------------------
(* C4 *)

\* C4: in every itinerary fallback_planning returns, the first item starts at
\* 09:00, every item ends its venue's estimated_duration minutes after it
\* starts, and every next item starts 30 minutes after the previous one ends
\* (times of day, so the sums are taken on the 24-hour clock).
C4_FallbackTimes ==
    \A p \in Handlers :
        FallbackReturned(p) =>
            LET it == itinerary[p] IN
            /\ it # <<>> => it[1].start_time = <<"0","9",":","0","0">>
            /\ \A k \in 1..Len(it) :
                  ClockMinutes(it[k].end_time)
                      = (ClockMinutes(it[k].start_time) + it[k].venue.estimated_duration) % 1440
            /\ \A k \in 1..(Len(it) - 1) :
                  ClockMinutes(it[k + 1].start_time)
                      = (ClockMinutes(it[k].end_time) + 30) % 1440

\* A fallback itinerary of five items whose running clock has passed midnight.
C4_Witness ==
    \E p \in Handlers :
        /\ FallbackReturned(p)
        /\ Len(itinerary[p]) = 5
        /\ \E k \in 1..5 : ClockMinutes(itinerary[p][k].end_time)
                               < ClockMinutes(itinerary[p][k].start_time)

---------------------------------------------------------------------------
(* C5 *)

\* C5: in every itinerary fallback_planning returns, every item's end_time,
\* read as a time of day, is later than its start_time.
C5_EndAfterStart ==
    \A p \in Handlers :
        FallbackReturned(p) =>
            \A k \in 1..Len(itinerary[p]) :
                ClockMinutes(itinerary[p][k].end_time)
                    > ClockMinutes(itinerary[p][k].start_time)

---------------------------------------------------------------------------
(* C6 *)

\* C6: fallback_planning on an empty venue list returns the empty itinerary,
\* and a handler whose itinerary is empty ends in a 500 response without ever
\* constructing a Day Plan or calling insert_one, so nothing of it is in
\* day_plans.
C6_EmptyItineraryFails ==
    \A p \in Handlers :
        /\ (FallbackInvoked(p) /\ venues[p] = <<>>)
              => /\ FallbackReturned(p)
                 /\ itinerary[p] = <<>>
        /\ (pc[p] \in {"insert", "done"} /\ itinerary[p] = <<>>)
              => /\ pc[p] = "done"
                 /\ response[p].status = 500
                 /\ day_plan[p] = Null
                 /\ \A k \in 1..Len(effects[p]) : effects[p][k] # "insert"
                 /\ Len(plans) = Cardinality({q \in Handlers : response[q] # Null
                                                                /\ response[q].status = 200})

\* The service is down and the catalog read came back empty: the fallback
\* ran on the empty list and the request ended in 500.
C6_Witness ==
    \E p \in Handlers :
        /\ FallbackInvoked(p)
        /\ lastAwait[p].kind = "api_error"
        /\ venues[p] = <<>>
        /\ response[p].status = 500

---------------------------------------------------------------------------
(* C7 *)

\* C7: the estimated_cost of every Day Plan, constructed or persisted, is the
\* sum over its itinerary items of the documented price of the item's tier
\* ($ 25, $$ 50, $$$ 100, $$$$ 150, anything else 0).
C7_CostIsSumOfTierPrices ==
    /\ \A p \in Handlers :
          day_plan[p] # Null
              => day_plan[p].estimated_cost = SumOfTierPrices(day_plan[p].itinerary)
    /\ \A n \in 1..Len(plans) :
          plans[n].estimated_cost = SumOfTierPrices(plans[n].itinerary)

\* A persisted plan for a group of four over one $ and one $$ venue, at 75.
C7_Witness ==
    \E n \in 1..Len(plans) :
        /\ Len(plans[n].itinerary) = 2
        /\ {plans[n].itinerary[k].venue.price_range : k \in 1..2} = {"$", "$$"}
        /\ plans[n].estimated_cost = 75
        /\ \E p \in Handlers : request[p] # Null /\ request[p].group_size = 4

---------------------------------------------------------------------------
(* C8 *)

\* The venues the stops select: each stop that names a candidate, in the
\* order of the stops, with the first candidate it names.
SelectedVenues(stops, vs) ==
    LET named == SelectSeq([k \in 1..Len(stops) |-> k],
                           LAMBDA k : FirstMatching(stops[k], vs) > 0)
    IN  [j \in 1..Len(named) |-> Venue(vs[FirstMatching(stops[named[j]], vs)])]

\* C8: when the service answers with a list of stops that each have a
\* venue_name, the itinerary holds one item per stop that names a candidate,
\* in the order of the stops, each carrying the first venue in candidate order
\* whose name occurs in the stop's venue_name with case ignored; the stops
\* that name no candidate leave no item.
C8_StopsMatchedInOrder ==
    \A p \in Handlers :
        (/\ ServiceAnswered(p)
         /\ lastAwait[p].kind = "json"
         /\ "itinerary" \in DOMAIN lastAwait[p].body
         /\ \A k \in 1..Len(lastAwait[p].body.itinerary) :
               "venue_name" \in DOMAIN lastAwait[p].body.itinerary[k])
            => LET selected == SelectedVenues(lastAwait[p].body.itinerary, venues[p])
               IN  /\ Len(itinerary[p]) = Len(selected)
                   /\ \A k \in 1..Len(selected) : itinerary[p][k].venue = selected[k]

\* Two stops were proposed: the first names no candidate, the second names
\* both sample venues in another case and order; the one item carries the
\* first candidate.
C8_Witness ==
    \E p \in Handlers :
        /\ ServiceAnswered(p)
        /\ lastAwait[p].kind = "json"
        /\ "itinerary" \in DOMAIN lastAwait[p].body
        /\ LET stops == lastAwait[p].body.itinerary IN
           /\ Len(stops) = 2
           /\ \A k \in 1..2 : "venue_name" \in DOMAIN stops[k]
           /\ FirstMatching(stops[1], venues[p]) = 0
           /\ Cardinality({i \in 1..Len(venues[p]) :
                  OccursIgnoringCase(venues[p][i].name, stops[2].venue_name)}) = 2
           /\ Len(itinerary[p]) = 1
           /\ itinerary[p][1].venue.name = venues[p][1].name
           /\ pc[p] = "insert"

---------------------------------------------------------------------------
(* C9 *)

\* C9: the weather call never ends the request: right after it the handler
\* goes on to the catalog read having called the service once, and for every
\* answer but the complete 200 one its weather is the fixed snapshot
\* (22.0, "partly cloudy", 24.0, 65, "Clouds"); a request that fails has gone
\* past the weather call.
C9_WeatherNeverRaises ==
    \A p \in Handlers :
        /\ pc[p] = "catalog"
              => /\ lastAwait[p].kind = "weather"
                 /\ effects[p] = <<"weather">>
                 /\ lastAwait[p] # WeatherOk
                       => weather[p] = [temperature |-> 220, description |-> "partly cloudy",
                                        feels_like |-> 240, humidity |-> 65,
                                        weather_main |-> "Clouds"]
        /\ Cardinality({k \in 1..Len(effects[p]) : effects[p][k] = "weather"}) <= 1
        /\ (response[p] # Null /\ response[p].status = 500) => Len(effects[p]) >= 2

\* A request answered 200 whose plan carries the fixed snapshot: the weather
\* call had failed.
C9_Witness ==
    \E p \in Handlers :
        /\ response[p] # Null
        /\ response[p].status = 200
        /\ response[p].body.weather.description = "partly cloudy"
        /\ response[p].body.weather.temperature = 220

---------------------------------------------------------------------------
(* C10 *)

IsPrefix(s, full) == Len(s) <= Len(full) /\ s = SubSeq(full, 1, Len(s))

C10_State ==
    /\ \A p \in Handlers :
          /\ \/ IsPrefix(effects[p], <<"weather", "catalog", "generation", "insert">>)
             \/ IsPrefix(effects[p], <<"weather", "catalog", "insert">>)
          /\ (response[p] # Null /\ response[p].status = 200)
                => /\ effects[p][Len(effects[p])] = "insert"
                   /\ Cardinality({n \in 1..Len(plans) : plans[n] = response[p].body}) = 1
    /\ \A m, n \in 1..Len(plans) : m # n => plans[m].id # plans[n].id
    /\ Len(plans) = Cardinality({p \in Handlers : response[p] # Null /\ response[p].status = 200})

C10_Step ==
    \/ plans' = plans
    \/ /\ Len(plans') = Len(plans) + 1
       /\ SubSeq(plans', 1, Len(plans)) = plans

\* C10: every handler's external calls are, in order, a prefix of: weather,
\* catalog read, at most one generation call, insert; a handler answered 200
\* made the insert as its last call and its plan is in day_plans exactly
\* once; the plans in day_plans have distinct ids, one per request answered
\* 200; and every step leaves day_plans as it was or appends one plan to it.
C10_SequencedAndAppendOnly == [](C10_State) /\ [][C10_Step]_vars

\* Two requests answered 200, each with its own plan persisted.
C10_Witness ==
    \E p, q \in Handlers :
        /\ p # q
        /\ response[p] # Null /\ response[p].status = 200
        /\ response[q] # Null /\ response[q].status = 200
        /\ Len(plans) = 2
        /\ plans[1].id # plans[2].id

=============================================================================
